---- MODULE Spec2Model ----
(***************************************************************************)
(* Model of the job-application tracker backend: the SQLite applications   *)
(* table (backend/db/db.js), the Express routes that write it              *)
(* (backend/routes/applications.js) and the insight service that reads it  *)
(* (services/insightService.js).                                           *)
(*                                                                         *)
(* Strings the code compares with < and > (the formatted "NN%" rates) are  *)
(* sequences of UTF-16 code units, so that the comparison is the           *)
(* lexicographic one JavaScript performs.  Times are whole days before the *)
(* instant at which an insight query runs.                                 *)
(***************************************************************************)
EXTENDS Integers, Sequences, FiniteSets, TLC

\* ---------------------------------------------------------------- bounds
\* Number of rows the table ever receives (AUTOINCREMENT ids 1..MaxApps).
MaxApps == 2
\* Number of rows of the tables the analyzers are applied to directly.
MaxRows == 3
MaxMailRows == 1
MaxInFlight == 2
MaxHandled == 3

\* ------------------------------------------------------ input domains
\* Values a request body can carry, each list in the order of SQLite's
\* ORDER BY: NULL first, then BINARY collation (upper-case letters sort
\* before lower-case ones).
\* SQL NULL / JSON null.
Null == "NULL"

SourceOrder == <<"Direct", "LinkedIn">>
VersionOrder == <<"1.0", "2.0">>
StatusOrder ==
  <<Null, "Applied", "Interview", "Offer", "Rejected", "Withdrawn", "rejected", "total">>
DaysOrder == <<0, 30>>

SeqRange(s) == {s[i] : i \in DOMAIN s}

Undefined == "undefined"
NoRow == [id |-> 0]

\* A thrown exception, as the value of the call that threw it.
TypeError == [thrown |-> "TypeError"]
SqliteError == [thrown |-> "SqliteError"]
IsThrown(v) == "thrown" \in DOMAIN v

\* catch (error) { console.error(...); throw error; }
Swallow(error) == [success |-> FALSE, summary |-> <<>>]
Rethrow(error) == error

\* String.prototype.toLowerCase on the status strings above.
ToLowerCase(s) ==
  CASE s = "Applied" -> "applied"
    [] s = "Interview" -> "interview"
    [] s = "Offer" -> "offer"
    [] s = "Rejected" -> "rejected"
    [] s = "Withdrawn" -> "withdrawn"
    [] OTHER -> s

\* Math.round(num / den * 100) for den > 0: nearest integer, halves upward.
RoundPercent(num, den) == ((200 * num) + den) \div (2 * den)

\* Math.round(sum / n) for n > 0.
RoundAvg(sum, n) == ((2 * sum) + n) \div (2 * n)

\* ------------------------------------------------- strings as code units
Digit(d) == 48 + d

\* Number-to-string conversion of a template literal, for |n| < 1000.
Unsigned(n) ==
  IF n >= 100 THEN <<Digit(n \div 100), Digit((n \div 10) % 10), Digit(n % 10)>>
  ELSE IF n >= 10 THEN <<Digit(n \div 10), Digit(n % 10)>>
  ELSE <<Digit(n)>>

NumToStr(n) == IF n < 0 THEN <<45>> \o Unsigned(-n) ELSE Unsigned(n)

\* `${n}%`
Percent(n) == NumToStr(n) \o <<37>>

\* a > b on two JavaScript strings: lexicographic on code units.
RECURSIVE StrGreaterFrom(_, _, _)
StrGreaterFrom(a, b, i) ==
  IF i > Len(a) THEN FALSE
  ELSE IF i > Len(b) THEN TRUE
  ELSE IF a[i] # b[i] THEN a[i] > b[i]
  ELSE StrGreaterFrom(a, b, i + 1)

StrGreater(a, b) == StrGreaterFrom(a, b, 1)

\* parseInt on a string of the form produced by Percent.
RECURSIVE ParseDigits(_, _, _)
ParseDigits(s, i, acc) ==
  IF i > Len(s) \/ s[i] < 48 \/ s[i] > 57 THEN acc
  ELSE ParseDigits(s, i + 1, (10 * acc) + (s[i] - 48))

ParseInt(s) == IF Len(s) > 0 /\ s[1] = 45 THEN -ParseDigits(s, 2, 0) ELSE ParseDigits(s, 1, 0)

Ids == 1..MaxApps

\* No response sent yet to the request being handled.
NoResponse == [status |-> 0]

\* The rows of a table value.
Rows(db) == {db[i] : i \in {j \in DOMAIN db : db[j] # NoRow}}

\* obj.name, Undefined when the object has no such property.
Prop(obj, name) == IF name \in DOMAIN obj THEN obj[name] ELSE Undefined

\* One line pushed onto a summary array: which template, and the values
\* interpolated into it.
Line(kind, args) == [kind |-> kind, args |-> args]

RECURSIVE SumOver(_, _, _)
SumOver(seq, field, i) == IF i > Len(seq) THEN 0 ELSE seq[i][field] + SumOver(seq, field, i + 1)

\* ------------------------------------------------- insightService queries
\* SELECT key, status, COUNT(*) ... GROUP BY key, status ORDER BY key, status
\* as the sequence of result rows; field is "source" or "resume_version".
GroupByStatus(db, keyOrder, field) ==
  LET n == Len(StatusOrder)
      all == [k \in 1..(Len(keyOrder) * n) |->
                LET key == keyOrder[((k - 1) \div n) + 1]
                    st == StatusOrder[((k - 1) % n) + 1]
                IN [key |-> key, status |-> st,
                    count |-> Cardinality({r \in Rows(db) : r[field] = key /\ r.status = st})]]
  IN SelectSeq(all, LAMBDA r : r.count > 0)

\* The counters object created for a key seen for the first time.
DataKeys == {"total", "rejected", "applied", "interview", "offer"}
    \cup {ToLowerCase(st) : st \in SeqRange(StatusOrder) \ {Null}}

\* row.status.toLowerCase() on a row whose status is NULL throws a TypeError.
ThrowsOnStatus(results) == \E i \in DOMAIN results : results[i].status = Null
EmptyData == [k \in DataKeys |-> 0]

KeyIndex(acc, key) ==
  IF \E i \in DOMAIN acc : acc[i].key = key
  THEN CHOOSE i \in DOMAIN acc : acc[i].key = key
  ELSE 0

\* results.forEach(row => { ...total += row.count; [status.toLowerCase()] = row.count })
\* acc is the object under construction as its entries in insertion order.
RECURSIVE Organize(_, _, _)
Organize(results, i, acc) ==
  IF i > Len(results) THEN acc
  ELSE
    LET row == results[i]
        pos == KeyIndex(acc, row.key)
        acc1 == IF pos = 0 THEN Append(acc, [key |-> row.key, data |-> EmptyData]) ELSE acc
        p == IF pos = 0 THEN Len(acc1) ELSE pos
        d1 == [acc1[p].data EXCEPT !["total"] = @ + row.count]
        d2 == [d1 EXCEPT ![ToLowerCase(row.status)] = row.count]
    IN Organize(results, i + 1, [acc1 EXCEPT ![p] = [key |-> row.key, data |-> d2]])

\* ------------------------------------------------ getRejectionRateBySource
sourceData(db) == Organize(GroupByStatus(db, SourceOrder, "source"), 1, <<>>)

SourceInsight(entry) ==
  LET data == entry.data
      rejectionRate == IF data["total"] > 0
                       THEN RoundPercent(data["rejected"], data["total"])
                       ELSE 0
  IN [source |-> entry.key,
      totalApplications |-> data["total"],
      rejectionRate |-> rejectionRate,
      rejectionCount |-> data["rejected"],
      successRate |-> 100 - rejectionRate]

SourceInsights(db) == LET sd == sourceData(db) IN [i \in DOMAIN sd |-> SourceInsight(sd[i])]

\* The initial values of the two reduce calls: objects whose only property
\* is rejectionRate.
HighestSentinel == [rejectionRate |-> 0]
LowestSentinel == [rejectionRate |-> 100]

RECURSIVE ReduceHighest(_, _, _)
ReduceHighest(insights, i, max) ==
  IF i > Len(insights) THEN max
  ELSE ReduceHighest(insights, i + 1,
         IF insights[i].rejectionRate > max.rejectionRate THEN insights[i] ELSE max)

highestRejection(insights) == ReduceHighest(insights, 1, HighestSentinel)

RECURSIVE ReduceLowest(_, _, _)
ReduceLowest(insights, i, min) ==
  IF i > Len(insights) THEN min
  ELSE ReduceLowest(insights, i + 1,
         IF insights[i].rejectionRate < min.rejectionRate THEN insights[i] ELSE min)

lowestRejection(insights) == ReduceLowest(insights, 1, LowestSentinel)

_generateRejectionRateSummary(insights, highest, lowest) ==
  LET header == <<Line("RejectionHeader", <<SumOver(insights, "totalApplications", 1)>>)>>
  IN IF Len(insights) = 0
     THEN header \o <<Line("NoData", <<>>)>>
     ELSE header
          \o <<Line("BestSource", <<Prop(lowest, "source"), lowest.rejectionRate>>),
               Line("HighestSource", <<Prop(highest, "source"), highest.rejectionRate>>)>>
          \o (IF highest.rejectionRate > 50
              THEN <<Line("ImproveSource", <<Prop(highest, "source")>>)>> ELSE <<>>)
          \o (IF "successRate" \in DOMAIN lowest /\ lowest.successRate > 70
              THEN <<Line("SuccessPattern", <<Prop(lowest, "source")>>)>> ELSE <<>>)
          \o <<Line("Breakdown", <<>>)>>
          \o [i \in DOMAIN insights |->
                Line("SourceDetail", <<insights[i].source, insights[i].rejectionRate,
                                       insights[i].rejectionCount,
                                       insights[i].totalApplications>>)]

\* The value getRejectionRateBySource returns.
getRejectionRateBySource(db) ==
  LET insights == SourceInsights(db)
  IN IF ThrowsOnStatus(GroupByStatus(db, SourceOrder, "source")) THEN Rethrow(TypeError)
     ELSE
     [success |-> TRUE,
      insights |-> [i \in DOMAIN insights |->
                      [source |-> insights[i].source,
                       totalApplications |-> insights[i].totalApplications,
                       rejectionRate |-> Percent(insights[i].rejectionRate),
                       rejectionCount |-> insights[i].rejectionCount,
                       successRate |-> Percent(insights[i].successRate)]],
      summary |-> _generateRejectionRateSummary(insights, highestRejection(insights),
                                                lowestRejection(insights))]

\* ------------------------------------------ getBestPerformingResumeVersion
versionData(db) == Organize(GroupByStatus(db, VersionOrder, "resume_version"), 1, <<>>)

VersionInsight(entry) ==
  LET data == entry.data
      total == data["total"]
  IN [version |-> entry.key,
      totalApplications |-> total,
      rejectionRate |-> IF total > 0 THEN RoundPercent(data["rejected"], total) ELSE 0,
      successRate |-> IF total > 0
                      THEN RoundPercent(data["interview"] + data["offer"], total) ELSE 0,
      interviewRate |-> IF total > 0 THEN RoundPercent(data["interview"], total) ELSE 0,
      offerRate |-> IF total > 0 THEN RoundPercent(data["offer"], total) ELSE 0]

versionInsights(db) == LET vd == versionData(db) IN [i \in DOMAIN vd |-> VersionInsight(vd[i])]

BestSentinel == [successRate |-> 0]
WorstSentinel == [successRate |-> 100]

RECURSIVE ReduceBest(_, _, _)
ReduceBest(versions, i, best) ==
  IF i > Len(versions) THEN best
  ELSE ReduceBest(versions, i + 1,
         IF versions[i].successRate > best.successRate THEN versions[i] ELSE best)

bestVersion(versions) == ReduceBest(versions, 1, BestSentinel)

RECURSIVE ReduceWorst(_, _, _)
ReduceWorst(versions, i, worst) ==
  IF i > Len(versions) THEN worst
  ELSE ReduceWorst(versions, i + 1,
         IF versions[i].successRate < worst.successRate THEN versions[i] ELSE worst)

worstVersion(versions) == ReduceWorst(versions, 1, WorstSentinel)

VersionLines(kind, v) ==
  <<Line(kind, <<Prop(v, "version")>>),
    Line("SuccessRate", <<v.successRate>>),
    Line("InterviewRate", <<Prop(v, "interviewRate")>>),
    Line("OfferRate", <<Prop(v, "offerRate")>>),
    Line("TotalApplications", <<Prop(v, "totalApplications")>>)>>

_generateResumeVersionSummary(versions, best, worst) ==
  LET header == <<Line("ResumeHeader", <<>>)>>
  IN IF Len(versions) = 0
     THEN header \o <<Line("NoData", <<>>)>>
     ELSE header
          \o VersionLines("BestVersion", best)
          \o VersionLines("LowestVersion", worst)
          \o (IF best.successRate > worst.successRate + 20
              THEN <<Line("UseAsTemplate", <<Prop(best, "version")>>)>> ELSE <<>>)
          \o (IF "rejectionRate" \in DOMAIN worst /\ worst.rejectionRate > 60
              THEN <<Line("HighRejectionWarning", <<Prop(worst, "version")>>)>> ELSE <<>>)
          \o <<Line("AllVersions", <<>>)>>
          \o [i \in DOMAIN versions |->
                Line("VersionDetail", <<versions[i].version, versions[i].successRate,
                                        versions[i].interviewRate, versions[i].offerRate>>)]

\* The value getBestPerformingResumeVersion returns.
getBestPerformingResumeVersion(db) ==
  LET versions == versionInsights(db)
  IN IF ThrowsOnStatus(GroupByStatus(db, VersionOrder, "resume_version"))
     THEN Rethrow(TypeError)
     ELSE
     [success |-> TRUE,
      versions |-> versions,
      summary |-> _generateResumeVersionSummary(versions, bestVersion(versions),
                                                worstVersion(versions))]

\* -------------------------------------------------- getAverageResponseTime
\* The statusGroups object literal, in property order.
StatusGroups == <<"Interview", "Offer", "Rejected">>

\* Rows selected by WHERE status IN ('Interview', 'Offer', 'Rejected').
AllRows(db) == Rows(db)
CompletedRows(db) == {r \in Rows(db) : r.status \in SeqRange(StatusGroups)}

RECURSIVE SumDays(_)
SumDays(rows) ==
  IF rows = {} THEN 0
  ELSE LET r == CHOOSE x \in rows : TRUE IN r.days + SumDays(rows \ {r})

\* Object.entries(averages): one entry per status that has rows, in the
\* property order of statusGroups.
averages(db) ==
  LET group(st) == {r \in CompletedRows(db) : r.status = st}
      all == [i \in DOMAIN StatusGroups |->
                [status |-> StatusGroups[i],
                 n |-> Cardinality(group(StatusGroups[i])),
                 sum |-> SumDays(group(StatusGroups[i]))]]
      present == SelectSeq(all, LAMBDA g : g.n > 0)
  IN [i \in DOMAIN present |->
        [status |-> present[i].status, avg |-> RoundAvg(present[i].sum, present[i].n)]]

Infinity == 1000000

RECURSIVE ReduceFastest(_, _, _)
ReduceFastest(entries, i, fastest) ==
  IF i > Len(entries) THEN fastest
  ELSE ReduceFastest(entries, i + 1,
         IF entries[i].avg < fastest.avg THEN entries[i] ELSE fastest)

fastestResponse(entries) == ReduceFastest(entries, 1, [status |-> "", avg |-> Infinity])

RECURSIVE ReduceSlowest(_, _, _)
ReduceSlowest(entries, i, slowest) ==
  IF i > Len(entries) THEN slowest
  ELSE ReduceSlowest(entries, i + 1,
         IF entries[i].avg > slowest.avg THEN entries[i] ELSE slowest)

slowestResponse(entries) == ReduceSlowest(entries, 1, [status |-> "", avg |-> 0])

HasAverage(entries, st) == \E i \in DOMAIN entries : entries[i].status = st
AverageOf(entries, st) == entries[CHOOSE i \in DOMAIN entries : entries[i].status = st].avg

\* averages.X used as a condition: present and not 0.
Truthy(entries, st) == HasAverage(entries, st) /\ AverageOf(entries, st) # 0

_generateResponseTimeSummary(entries, fastest, slowest, nApplications) ==
  LET header == <<Line("ResponseHeader", <<nApplications>>)>>
      timeLine(st) == IF Truthy(entries, st)
                      THEN <<Line("AverageTime", <<st, AverageOf(entries, st)>>)>> ELSE <<>>
  IN IF Len(entries) = 0
     THEN header \o <<Line("NoData", <<>>)>>
     ELSE header
          \o <<Line("Fastest", <<fastest.status, fastest.avg>>),
               Line("Slowest", <<slowest.status, slowest.avg>>),
               Line("AverageTimes", <<>>)>>
          \o timeLine("Interview") \o timeLine("Offer") \o timeLine("Rejected")
          \o (IF Truthy(entries, "Interview") /\ AverageOf(entries, "Interview") < 7
              THEN <<Line("PositiveInsight", <<>>)>> ELSE <<>>)
          \o (IF Truthy(entries, "Offer") /\ AverageOf(entries, "Offer") < 14
              THEN <<Line("ExcellentPerformance", <<>>)>> ELSE <<>>)
          \o (IF Truthy(entries, "Rejected") /\ AverageOf(entries, "Rejected") < 5
              THEN <<Line("QuickRejections", <<>>)>> ELSE <<>>)
          \o (IF Truthy(entries, "Interview") /\ AverageOf(entries, "Interview") > 21
              THEN <<Line("FollowUp", <<>>)>> ELSE <<>>)

\* The value getAverageResponseTime returns; the early return for an empty
\* query result carries no averages property.
getAverageResponseTime(db) ==
  IF CompletedRows(db) = {}
  THEN [success |-> TRUE, summary |-> <<Line("NoCompleted", <<>>)>>]
  ELSE LET entries == averages(db)
       IN [success |-> TRUE,
           averages |-> entries,
           summary |-> _generateResponseTimeSummary(entries, fastestResponse(entries),
                                                    slowestResponse(entries),
                                                    Cardinality(CompletedRows(db)))]

\* ------------------------------------------------ getComprehensiveInsights
\* reduce over the formatted insights: successRate is a string such as
\* "50%" there, and so is the initial value's.
RECURSIVE ReduceBestSource(_, _, _)
ReduceBestSource(insights, i, best) ==
  IF i > Len(insights) THEN best
  ELSE ReduceBestSource(insights, i + 1,
         IF StrGreater(insights[i].successRate, best.successRate) THEN insights[i] ELSE best)

bestSource(insights) == ReduceBestSource(insights, 1, [successRate |-> Percent(0)])

bestResume(versions) == ReduceBest(versions, 1, [successRate |-> 0])

KeyFindings(rejectionInsights, resumeInsights, responseTimeInsights) ==
  (IF "insights" \in DOMAIN rejectionInsights /\ Len(rejectionInsights.insights) > 0
   THEN LET b == bestSource(rejectionInsights.insights)
        IN <<Line("KeyBestSource", <<Prop(b, "source"), b.successRate>>)>>
   ELSE <<>>)
  \o (IF "versions" \in DOMAIN resumeInsights /\ Len(resumeInsights.versions) > 0
      THEN LET b == bestResume(resumeInsights.versions)
           IN <<Line("KeyBestResume", <<Prop(b, "version"), b.successRate>>)>>
      ELSE <<>>)
  \o (IF "averages" \in DOMAIN responseTimeInsights /\ Len(responseTimeInsights.averages) > 0
      THEN (IF Truthy(responseTimeInsights.averages, "Interview")
            THEN <<Line("KeyTimeToInterview",
                        <<AverageOf(responseTimeInsights.averages, "Interview")>>)>>
            ELSE <<>>)
           \o (IF Truthy(responseTimeInsights.averages, "Offer")
               THEN <<Line("KeyTimeToOffer",
                           <<AverageOf(responseTimeInsights.averages, "Offer")>>)>>
               ELSE <<>>)
      ELSE <<>>)

\* The conditional bullets under the Recommendations heading.
RecommendationsUnparsed(rejectionInsights, resumeInsights, responseTimeInsights) ==
  (IF "versions" \in DOMAIN resumeInsights
      /\ \E i \in DOMAIN resumeInsights.versions :
            resumeInsights.versions[i].successRate < 30
   THEN <<Line("RecReviseResume", <<>>)>> ELSE <<>>)
  \o (IF "averages" \in DOMAIN responseTimeInsights
         /\ HasAverage(responseTimeInsights.averages, "Interview")
         /\ AverageOf(responseTimeInsights.averages, "Interview") > 14
      THEN <<Line("RecFollowUp", <<>>)>> ELSE <<>>)

Recommendations(rejectionInsights, resumeInsights, responseTimeInsights) ==
  (IF "insights" \in DOMAIN rejectionInsights
      /\ \E i \in DOMAIN rejectionInsights.insights :
            ParseInt(rejectionInsights.insights[i].rejectionRate) > 50
   THEN <<Line("RecImproveStrategy", <<>>)>> ELSE <<>>)
  \o (IF "versions" \in DOMAIN resumeInsights
         /\ \E i \in DOMAIN resumeInsights.versions :
               resumeInsights.versions[i].successRate < 30
      THEN <<Line("RecReviseResume", <<>>)>> ELSE <<>>)
  \o (IF "averages" \in DOMAIN responseTimeInsights
         /\ HasAverage(responseTimeInsights.averages, "Interview")
         /\ AverageOf(responseTimeInsights.averages, "Interview") > 14
      THEN <<Line("RecFollowUp", <<>>)>> ELSE <<>>)

\* The value getComprehensiveInsights returns, from the values its three
\* analyzer calls returned.
ComprehensiveResumeFirst(rejectionInsights, resumeInsights, responseTimeInsights) ==
  [success |-> TRUE,
   comprehensiveSummary |->
     <<Line("Title", <<>>), Line("KeyFindings", <<>>)>>
     \o KeyFindings(rejectionInsights, resumeInsights, responseTimeInsights)
     \o <<Line("Recommendations", <<>>)>>
     \o Recommendations(rejectionInsights, resumeInsights, responseTimeInsights)
     \o <<Line("DetailedAnalysis", <<>>),
          Line("Detail", resumeInsights.summary),
          Line("Detail", rejectionInsights.summary),
          Line("Detail", responseTimeInsights.summary)>>,
   detailedInsights |->
     [rejectionRate |-> rejectionInsights,
      resumePerformance |-> resumeInsights,
      responseTime |-> responseTimeInsights]]

Comprehensive(rejectionInsights, resumeInsights, responseTimeInsights) ==
  [success |-> TRUE,
   comprehensiveSummary |->
     <<Line("Title", <<>>), Line("KeyFindings", <<>>)>>
     \o KeyFindings(rejectionInsights, resumeInsights, responseTimeInsights)
     \o <<Line("Recommendations", <<>>)>>
     \o Recommendations(rejectionInsights, resumeInsights, responseTimeInsights)
     \o <<Line("DetailedAnalysis", <<>>),
          Line("Detail", rejectionInsights.summary),
          Line("Detail", resumeInsights.summary),
          Line("Detail", responseTimeInsights.summary)>>,
   detailedInsights |->
     [rejectionRate |-> rejectionInsights,
      resumePerformance |-> resumeInsights,
      responseTime |-> responseTimeInsights]]

\* ------------------------------------------------------------- db.js
\* body.name || fallback, for a request body that has the property or not;
\* null is falsy.
OrElse(body, name, fallback) ==
  IF name \in DOMAIN body /\ body[name] # Null THEN body[name] ELSE fallback

\* body.applied_at || fallback; the times considered are never null.
OrElseTime(body, name, fallback) == IF name \in DOMAIN body THEN body[name] ELSE fallback

getApplicationById(db, id) == IF id \in DOMAIN db THEN db[id] ELSE NoRow

\* INSERT with the defaults of createApplication; id is lastInsertRowid.
createApplication(db, id, data) ==
  [db EXCEPT ![id] = [id |-> id,
                      status |-> OrElse(data, "status", "Applied"),
                      source |-> OrElse(data, "source", "Direct"),
                      resume_version |-> OrElse(data, "resume_version", "1.0"),
                      days |-> OrElseTime(data, "days", 0)]]

\* UPDATE applications SET status = ? WHERE id = ?
updateApplicationStatus(db, id, newStatus) ==
  IF getApplicationById(db, id) = NoRow THEN db
  ELSE [db EXCEPT ![id] = [@ EXCEPT !.status = newStatus]]

\* UPDATE of every column WHERE id = ?
updateApplication(db, id, data) ==
  IF getApplicationById(db, id) = NoRow THEN db
  ELSE [db EXCEPT ![id] = [id |-> id,
                           status |-> data.status,
                           source |-> data.source,
                           resume_version |-> data.resume_version,
                           days |-> data.days]]

\* DELETE FROM applications WHERE id = ?
deleteApplication(db, id) ==
  IF getApplicationById(db, id) = NoRow THEN db ELSE [db EXCEPT ![id] = NoRow]

\* ------------------------------------------------- motia/eventBus.js
\* The names registerWorkflows is called with when workflows.js is loaded.
Workflows == {"applicationCreated", "statusUpdated", "weeklySummary"}

Error(message) == [thrown |-> "Error", message |-> message]

\* What emitEvent makes of an error thrown by the workflow it awaited.
Uncaught(error) == error
Caught(error) == [success |-> FALSE, error |-> error.thrown]

\* emitEvent(eventName, payload), outcome being what workflows[eventName]
\* (payload) returns or throws; the workflow is not called for a name that
\* has none.
emitEvent(eventName, outcome) ==
  IF eventName \notin Workflows
  THEN [success |-> FALSE, error |-> "No workflow for event"]
  ELSE IF IsThrown(outcome) THEN Caught(outcome)
  ELSE outcome @@ [success |-> TRUE]

\* ------------------------------------------------- motia/workflows.js
applicationCreated(payload) ==
  [workflow |-> "applicationCreated", applicationId |-> Prop(payload, "id"), success |-> TRUE]

\* The workflow reads the row through its own connection (ok: the read
\* succeeds) and throws when there is none.
statusUpdated(db, payload, ok) ==
  IF ~ok THEN Rethrow(SqliteError)
  ELSE IF getApplicationById(db, payload.applicationId) = NoRow
  THEN Rethrow(Error("Application not found"))
  ELSE [workflow |-> "statusUpdated",
        applicationId |-> payload.applicationId,
        oldStatus |-> payload.oldStatus,
        newStatus |-> payload.newStatus,
        success |-> TRUE]

\* ------------------------------------------------------------- state
VARIABLES
  applications,   \* the applications table: id -> row, NoRow where no row
  nextId,         \* next AUTOINCREMENT id
  response,       \* the response sent to the most recent request, if sent yet
  running,        \* the request whose synchronous code is on the call stack
  pending,        \* values returned so far by the analyzers of that request
  reads,          \* the table value each query of the most recent request saw
  emitted,        \* the emitEvent calls of the most recent request, where recorded
  mail,           \* the mail transport, the console and the weekly summary in progress
  page            \* the frontend page: its list and the status updates in flight

vars == <<applications, nextId, response, running, pending, reads, emitted, mail, page>>

\* The log of emitEvent calls is kept in the specifications that start with
\* a recording log, and stays empty in the others.
NotRecording == [recording |-> FALSE, events |-> <<>>]
Recording == [recording |-> TRUE, events |-> <<>>]
Log(events) == [emitted EXCEPT !.events = IF emitted.recording THEN events ELSE <<>>]

\* No credentials in the environment, nothing handed to the transport or
\* logged, no weekly summary in progress.
NoInsights == [success |-> FALSE]
NoMail ==
  [configured |-> FALSE, sent |-> <<>>, logged |-> <<>>,
   awaiting |-> "none", insights |-> NoInsights]
\* useState([]) and no call of handleUpdateStatus running.
NoPage == [applications |-> <<>>, inFlight |-> {}, handled |-> <<>>]

Init ==
  /\ applications = [i \in Ids |-> NoRow]
  /\ nextId = 1
  /\ response = NoResponse
  /\ running = "none"
  /\ pending = <<>>
  /\ reads = <<>>
  /\ emitted = NotRecording
  /\ mail = NoMail
  /\ page = NoPage

\* Request bodies: each property present with a value of its domain, or absent.
Optional(name, values) == {<<>>} \cup {[n \in {name} |-> v] : v \in values}

Bodies ==
  {a @@ b @@ c @@ d :
     a \in Optional("status", SeqRange(StatusOrder)),
     b \in Optional("source", SeqRange(SourceOrder)),
     c \in Optional("resume_version", SeqRange(VersionOrder)),
     d \in Optional("days", SeqRange(DaysOrder))}

\* The read log is the one of the insights request in progress, or of the
\* most recent request when none is in progress.
Forget(log) == IF pending = <<>> THEN <<>> ELSE log

\* A request handler starts only when no other JavaScript is running.
EventLoopIdle == running = "none"

\* ---------------------------------------------- routes/applications.js
\* One emitEvent call as the log keeps it.
Event(name, payload, result) == [name |-> name, payload |-> payload, result |-> result]

\* The payload of applicationCreated: the row createApplication returned.
ApplicationCreatedUnsaved(applicationData, newApplication) == applicationData
ApplicationCreatedPayload(applicationData, newApplication) == newApplication

\* The payload of statusUpdated.
StatusUpdatedReread(oldApplication, updatedApplication, status) ==
  [applicationId |-> updatedApplication.id,
   oldStatus |-> updatedApplication.status,
   newStatus |-> status]
StatusUpdatedPayload(oldApplication, updatedApplication, status) ==
  [applicationId |-> updatedApplication.id,
   oldStatus |-> oldApplication.status,
   newStatus |-> status]

\* POST /
PostApplication(body) ==
  /\ EventLoopIdle
  /\ nextId <= MaxApps
  /\ LET applicationData == [status |-> OrElse(body, "status", "Applied"),
                             source |-> OrElse(body, "source", "Direct"),
                             resume_version |-> OrElse(body, "resume_version", "1.0"),
                             days |-> OrElseTime(body, "days", 0)]
         db == createApplication(applications, nextId, applicationData)
         newApplication == getApplicationById(db, nextId)
         payload == ApplicationCreatedPayload(applicationData, newApplication)
         result == emitEvent("applicationCreated", applicationCreated(payload))
     IN /\ applications' = db
        /\ emitted' = Log(<<Event("applicationCreated", payload, result)>>)
        /\ response' = IF IsThrown(result)
                       THEN [status |-> 500, error |-> "Failed to create application"]
                       ELSE [status |-> 201, body |-> newApplication]
  /\ nextId' = nextId + 1
  /\ reads' = Forget(reads)
  /\ UNCHANGED <<running, pending, mail, page>>

\* PATCH /:id/status
PatchStatusFailed == [status |-> 500, error |-> "Failed to update application status"]

\* The handler without its test of oldApplication: updateApplicationStatus
\* returns null for an absent id and updatedApplication.id throws.
PatchStatusUnchecked(id, status, ok) ==
  /\ EventLoopIdle
  /\ LET oldApplication == getApplicationById(applications, id)
         db == updateApplicationStatus(applications, id, status)
         updatedApplication == getApplicationById(db, id)
     IN /\ applications' = db
        /\ IF updatedApplication = NoRow
           THEN /\ response' = PatchStatusFailed
                /\ emitted' = Log(<<>>)
           ELSE LET payload == StatusUpdatedPayload(oldApplication, updatedApplication, status)
                    result == emitEvent("statusUpdated", statusUpdated(db, payload, ok))
                IN /\ emitted' = Log(<<Event("statusUpdated", payload, result)>>)
                   /\ response' = IF IsThrown(result) THEN PatchStatusFailed
                                  ELSE [status |-> 200, body |-> updatedApplication]
  /\ reads' = Forget(reads)
  /\ UNCHANGED <<nextId, running, pending, mail, page>>

\* PATCH /:id/status; ok: the read of the statusUpdated workflow succeeds.
PatchStatusHandler(id, status, ok) ==
  /\ EventLoopIdle
  /\ LET oldApplication == getApplicationById(applications, id)
     IN IF oldApplication = NoRow
        THEN /\ response' = [status |-> 404]
             /\ emitted' = Log(<<>>)
             /\ UNCHANGED applications
        ELSE LET db == updateApplicationStatus(applications, id, status)
                 updatedApplication == getApplicationById(db, id)
                 payload == StatusUpdatedPayload(oldApplication, updatedApplication, status)
                 result == emitEvent("statusUpdated", statusUpdated(db, payload, ok))
             IN /\ applications' = db
                /\ emitted' = Log(<<Event("statusUpdated", payload, result)>>)
                /\ response' = IF IsThrown(result) THEN PatchStatusFailed
                               ELSE [status |-> 200, body |-> updatedApplication]
  /\ reads' = Forget(reads)
  /\ UNCHANGED <<nextId, running, pending, mail>>

\* The request sent by a client other than the page.
PatchStatus(id, status, ok) ==
  /\ PatchStatusHandler(id, status, ok)
  /\ UNCHANGED page

\* PUT /:id
PutApplication(id, body) ==
  /\ EventLoopIdle
  /\ LET existing == getApplicationById(applications, id)
     IN IF existing = NoRow
        THEN /\ response' = [status |-> 404]
             /\ UNCHANGED applications
        ELSE LET applicationData ==
                   [status |-> OrElse(body, "status", existing.status),
                    source |-> OrElse(body, "source", existing.source),
                    resume_version |-> OrElse(body, "resume_version", existing.resume_version),
                    days |-> OrElseTime(body, "days", existing.days)]
                 db == updateApplication(applications, id, applicationData)
             IN /\ applications' = db
                /\ response' = [status |-> 200, body |-> getApplicationById(db, id)]
  /\ emitted' = Log(<<>>)
  /\ reads' = Forget(reads)
  /\ UNCHANGED <<nextId, running, pending, mail, page>>

\* DELETE /:id
DeleteApplication(id) ==
  /\ EventLoopIdle
  /\ IF getApplicationById(applications, id) = NoRow
     THEN /\ response' = [status |-> 404]
          /\ UNCHANGED applications
     ELSE /\ applications' = deleteApplication(applications, id)
          /\ response' = [status |-> 204]
  /\ emitted' = Log(<<>>)
  /\ reads' = Forget(reads)
  /\ UNCHANGED <<nextId, running, pending, mail, page>>

\* What is on the call stack after an analyzer call made by handler h has
\* returned: the calls are plain synchronous calls, h keeps running.
AfterAnalyzerAwaited(h) == "none"
AfterAnalyzer(h) == h

\* res.status(500).json(...) in the catch block of GET /insights.
InsightsFailed == [status |-> 500, error |-> "Failed to generate insights"]

\* The table after a SELECT statement has run on it.
AfterSelectRepairing(db) ==
  [i \in DOMAIN db |->
     IF db[i] # NoRow /\ db[i].status = Null THEN [db[i] EXCEPT !.status = "Applied"]
     ELSE db[i]]
AfterSelect(db) == db

\* The rows a statement prepared and run inside an analyzer call sees: those
\* of the table at the time of the call.
SnapshotAtLoad(db) == [i \in DOMAIN db |-> NoRow]
Snapshot(db) == db

\* The value of an analyzer call whose query runs (ok), result being what
\* the analyzer makes of the rows, or fails in the storage: the analyzer's
\* catch block rethrows what stmt.all() threw.
Analyze(result, ok) == IF ok THEN result ELSE Rethrow(SqliteError)

\* The catch blocks of getComprehensiveInsights and of the route end the
\* request with the error response.
InsightsThrew ==
  /\ response' = InsightsFailed
  /\ pending' = <<>>
  /\ running' = "none"

\* GET /insights, first statement of getComprehensiveInsights.
InsightsRejection(ok) ==
  /\ EventLoopIdle
  /\ LET value == Analyze(getRejectionRateBySource(Snapshot(applications)), ok)
     IN IF IsThrown(value)
        THEN InsightsThrew
        ELSE /\ pending' = <<value>>
             /\ running' = AfterAnalyzer("insights")
             /\ response' = NoResponse
  /\ reads' = IF ok THEN <<applications>> ELSE <<>>
  /\ applications' = AfterSelect(applications)
  /\ emitted' = Log(<<>>)
  /\ UNCHANGED <<nextId, mail, page>>

\* Second statement.
InsightsResume(ok) ==
  /\ Len(pending) = 1
  /\ LET value == Analyze(getBestPerformingResumeVersion(Snapshot(applications)), ok)
     IN IF IsThrown(value)
        THEN InsightsThrew
        ELSE /\ pending' = Append(pending, value)
             /\ running' = AfterAnalyzer("insights")
             /\ UNCHANGED response
  /\ reads' = IF ok THEN Append(reads, applications) ELSE reads
  /\ applications' = AfterSelect(applications)
  /\ UNCHANGED <<nextId, emitted, mail, page>>

\* Third statement, the assembly of the report and res.json(insights).
InsightsResponseTime(ok) ==
  /\ Len(pending) = 2
  /\ LET value == Analyze(getAverageResponseTime(Snapshot(applications)), ok)
     IN IF IsThrown(value)
        THEN InsightsThrew
        ELSE /\ response' = [status |-> 200,
                             insights |-> Comprehensive(pending[1], pending[2], value)]
             /\ pending' = <<>>
             /\ running' = "none"
  /\ reads' = IF ok THEN Append(reads, applications) ELSE reads
  /\ applications' = AfterSelect(applications)
  /\ UNCHANGED <<nextId, emitted, mail, page>>

Next ==
  \/ \E body \in Bodies : PostApplication(body)
  \/ \E id \in Ids, status \in SeqRange(StatusOrder), ok \in BOOLEAN : PatchStatus(id, status, ok)
  \/ \E id \in Ids, body \in Bodies : PutApplication(id, body)
  \/ \E id \in Ids : DeleteApplication(id)
  \/ \E ok \in BOOLEAN : InsightsRejection(ok)
  \/ \E ok \in BOOLEAN : InsightsResume(ok)
  \/ \E ok \in BOOLEAN : InsightsResponseTime(ok)

Spec == Init /\ [][Next]_vars

\* ------------------------------- the routes with the log of events kept
\* Request bodies that give a status, a source, both or neither.
RouteBodies ==
  {a @@ b :
     a \in Optional("status", SeqRange(StatusOrder)),
     b \in Optional("source", SeqRange(SourceOrder))}

\* The event names emitEvent is called with from outside the routes: a
\* registered one and the name the README gives the same event.
DirectEvents == {"statusUpdated", "application_status_updated"}

RoutesInit ==
  /\ applications = [i \in Ids |-> NoRow]
  /\ nextId = 1
  /\ response = NoResponse
  /\ running = "none"
  /\ pending = <<>>
  /\ reads = <<>>
  /\ emitted = Recording
  /\ mail = NoMail
  /\ page = NoPage

\* eventBus.emitEvent called by a module other than the routes (the bus is
\* exported for that), with a statusUpdated payload for application id.
EmitEvent(eventName, id, ok) ==
  /\ EventLoopIdle
  /\ LET payload == [applicationId |-> id, oldStatus |-> "Applied", newStatus |-> "Interview"]
         result == emitEvent(eventName, statusUpdated(applications, payload, ok))
     IN emitted' = Log(<<Event(eventName, payload, result)>>)
  /\ response' = NoResponse
  /\ reads' = Forget(reads)
  /\ UNCHANGED <<applications, nextId, running, pending, mail, page>>

RoutesNext ==
  \/ \E body \in RouteBodies : PostApplication(body)
  \/ \E id \in Ids, status \in SeqRange(StatusOrder), ok \in BOOLEAN : PatchStatus(id, status, ok)
  \/ \E id \in Ids, body \in RouteBodies : PutApplication(id, body)
  \/ \E id \in Ids : DeleteApplication(id)
  \/ \E eventName \in DirectEvents, id \in Ids, ok \in BOOLEAN : EmitEvent(eventName, id, ok)

RoutesSpec == RoutesInit /\ [][RoutesNext]_vars

\* ------------------------------------------ the analyzers on given tables
\* Every table of at most MaxRows rows, up to the order of the ids: a row
\* value is numbered by its column values, and a table lists its row values
\* in non-decreasing order of that number, the empty slots first.
NumSources == Len(SourceOrder)
NumVersions == Len(VersionOrder)
NumStatuses == Len(StatusOrder)
NumRowValues == NumStatuses * NumSources * NumVersions * Len(DaysOrder)

RowValue(c, id) ==
  IF c = 0 THEN NoRow
  ELSE LET k == c - 1
       IN [id |-> id,
           status |-> StatusOrder[(k % NumStatuses) + 1],
           source |-> SourceOrder[((k \div NumStatuses) % NumSources) + 1],
           resume_version |->
             VersionOrder[((k \div (NumStatuses * NumSources)) % NumVersions) + 1],
           days |-> DaysOrder[(k \div (NumStatuses * NumSources * NumVersions)) + 1]]

Tables ==
  {[i \in 1..MaxRows |-> RowValue(c[i], i)] :
     c \in {x \in [1..MaxRows -> 0..NumRowValues] :
              \A i \in 1..(MaxRows - 1) : x[i] <= x[i + 1]}}

AnalyzerInit ==
  /\ applications \in Tables
  /\ nextId = MaxRows + 1
  /\ response = NoResponse
  /\ running = "none"
  /\ pending = <<>>
  /\ reads = <<>>
  /\ emitted = NotRecording
  /\ mail = NoMail
  /\ page = NoPage

Returned(call, result) ==
  /\ response' = IF IsThrown(result)
                 THEN [call |-> call, thrown |-> result.thrown]
                 ELSE [call |-> call, result |-> result]
  /\ applications' = AfterSelect(applications)
  /\ UNCHANGED <<nextId, running, pending, reads, emitted, mail, page>>

CallRejectionRateBySource ==
  Returned("getRejectionRateBySource", getRejectionRateBySource(applications))

\* The table with every row stored twice.
Twice(db) ==
  [i \in 1..(2 * Len(db)) |->
     IF i <= Len(db) THEN db[i]
     ELSE IF db[i - Len(db)] = NoRow THEN NoRow
     ELSE [db[i - Len(db)] EXCEPT !.id = i]]

\* The call with counters that outlive the invocation: a second call in a
\* row adds the rows to the counts of the first.
CallResumeVersionShared ==
  Returned("getBestPerformingResumeVersion",
           getBestPerformingResumeVersion(
             IF "call" \in DOMAIN response
                /\ response.call = "getBestPerformingResumeVersion"
             THEN Twice(applications) ELSE applications))

CallBestPerformingResumeVersion ==
  Returned("getBestPerformingResumeVersion", getBestPerformingResumeVersion(applications))

CallAverageResponseTime ==
  Returned("getAverageResponseTime", getAverageResponseTime(applications))

getComprehensiveInsights(db) ==
  LET rejectionInsights == getRejectionRateBySource(db)
      resumeInsights == getBestPerformingResumeVersion(db)
      responseTimeInsights == getAverageResponseTime(db)
  IN IF IsThrown(rejectionInsights) THEN Rethrow(rejectionInsights)
     ELSE IF IsThrown(resumeInsights) THEN Rethrow(resumeInsights)
     ELSE IF IsThrown(responseTimeInsights) THEN Rethrow(responseTimeInsights)
     ELSE Comprehensive(rejectionInsights, resumeInsights, responseTimeInsights)

CallComprehensiveInsights ==
  Returned("getComprehensiveInsights", getComprehensiveInsights(applications))

\* ------------------------------------------------ services/emailService.js
EmailNotConfigured == [success |-> FALSE, message |-> "Email not configured", logged |-> TRUE]
EmailSent == [success |-> TRUE, message |-> "Weekly summary email sent successfully"]
EmailFailed(error) ==
  [success |-> FALSE, message |-> "Failed to send weekly summary email", error |-> error.thrown]
SummaryFailed(error) ==
  [success |-> FALSE, message |-> "Failed to generate weekly summary", error |-> error.thrown]

isEmailConfigured == mail.configured

\* nodemailer.createTransporter(...): the library is not part of the
\* sources; the call returns a transporter (made) or throws because the
\* library installed has no function of that name.
NotAFunction == [thrown |-> "TypeError: createTransporter is not a function"]

createTransporter(made) ==
  IF ~isEmailConfigured THEN Null
  ELSE IF made THEN [sendMail |-> "function"] ELSE Rethrow(NotAFunction)

\* The lists of the HTML body; Object.entries(averages) throws when the
\* response-time report has no averages property.
generateHtmlEmail(insights) ==
  IF "averages" \notin DOMAIN insights.detailedInsights.responseTime
  THEN Rethrow(TypeError)
  ELSE [sources |-> insights.detailedInsights.rejectionRate.insights,
        versions |-> insights.detailedInsights.resumePerformance.versions,
        times |-> insights.detailedInsights.responseTime.averages]

\* sendWeeklySummaryEmail up to its await: either it has returned (settled)
\* with a result, or it has handed one message to transporter.sendMail.
sendWeeklySummaryEmail(toEmail, insights, made) ==
  IF ~isEmailConfigured
  THEN [settled |-> TRUE, result |-> EmailNotConfigured,
        sent |-> <<>>, logged |-> <<insights.comprehensiveSummary>>]
  ELSE LET transporter == createTransporter(made)
           htmlContent == generateHtmlEmail(insights)
       IN IF IsThrown(transporter)
          THEN [settled |-> TRUE, result |-> EmailFailed(transporter),
                sent |-> <<>>, logged |-> <<>>]
          ELSE IF IsThrown(htmlContent)
          THEN [settled |-> TRUE, result |-> EmailFailed(htmlContent),
                sent |-> <<>>, logged |-> <<>>]
          ELSE [settled |-> FALSE,
                sent |-> <<[to |-> toEmail, html |-> htmlContent,
                            text |-> insights.comprehensiveSummary]>>,
                logged |-> <<>>]

\* What sendWeeklySummaryEmail returns once the promise of sendMail settles.
SendMailRejected == [thrown |-> "Error: message rejected"]
AfterSendMail(accepted) == IF accepted THEN EmailSent ELSE EmailFailed(SendMailRejected)

\* ------------------------------------ the weekly summary on given tables
\* The report the statements after the aggregation work on.
ReportOfEarlierRun(insights) ==
  getComprehensiveInsights(<<[id |-> 1, status |-> "Interview", source |-> SourceOrder[1],
                              resume_version |-> VersionOrder[1], days |-> DaysOrder[2]]>>)
AfterAggregation(insights) == insights

\* What the weeklySummary workflow returns after sendWeeklySummaryEmail.
WorkflowResult(emailResult) ==
  [workflow |-> "weeklySummary", insightsGenerated |-> TRUE,
   emailSent |-> emailResult.success, emailResult |-> emailResult, success |-> TRUE]

\* What the caller of the weekly summary gets: the workflow is reached
\* through emitEvent, sendWeeklySummary is called directly.
WeeklyResult(entry, emailResult) ==
  IF entry = "weeklySummary"
  THEN emitEvent("weeklySummary", WorkflowResult(emailResult))
  ELSE emailResult

WeeklyFailed(entry, error) ==
  IF entry = "weeklySummary" THEN emitEvent("weeklySummary", Rethrow(error))
  ELSE SummaryFailed(error)

\* The weekly summary from its start to its first await on the transport:
\* emitEvent('weeklySummary', {toEmail}) or sendWeeklySummary(toEmail); ok:
\* the queries of the aggregation succeed.
WeeklySummary(entry, toEmail, ok, made) ==
  /\ EventLoopIdle
  /\ mail.awaiting = "none"
  /\ \E insights \in {Analyze(getComprehensiveInsights(Snapshot(applications)), ok)} :
       \E report \in {AfterAggregation(insights)} :
         IF IsThrown(report)
         THEN /\ response' = [call |-> entry, result |-> WeeklyFailed(entry, report)]
              /\ mail' = [mail EXCEPT !.sent = <<>>, !.logged = <<>>, !.insights = insights]
         ELSE \E email \in {sendWeeklySummaryEmail(toEmail, report, made)} :
                LET consoleLog == IF entry = "weeklySummary"
                                  THEN <<report.comprehensiveSummary>> ELSE <<>>
                IN /\ mail' = [mail EXCEPT !.sent = email.sent,
                                           !.logged = consoleLog \o email.logged,
                                           !.insights = insights,
                                           !.awaiting = IF email.settled THEN "none" ELSE entry]
                   /\ response' = IF email.settled
                                  THEN [call |-> entry,
                                        result |-> WeeklyResult(entry, email.result)]
                                  ELSE NoResponse
  /\ applications' = AfterSelect(applications)
  /\ UNCHANGED <<nextId, running, pending, reads, emitted, page>>

\* emitEvent('weeklySummary', {}) : the workflow without a recipient.
WeeklySummaryUnaddressed(ok) ==
  /\ EventLoopIdle
  /\ mail.awaiting = "none"
  /\ \E insights \in {Analyze(getComprehensiveInsights(Snapshot(applications)), ok)} :
       \E report \in {AfterAggregation(insights)} :
         /\ response' =
              [call |-> "weeklySummary",
               result |-> IF IsThrown(report) THEN WeeklyFailed("weeklySummary", report)
                          ELSE emitEvent("weeklySummary",
                                         [workflow |-> "weeklySummary", insights |-> report,
                                          emailSent |-> FALSE, success |-> TRUE])]
         /\ mail' = [mail EXCEPT !.sent = <<>>,
                                 !.logged = IF IsThrown(report) THEN <<>>
                                            ELSE <<report.comprehensiveSummary>>,
                                 !.insights = insights]
  /\ applications' = AfterSelect(applications)
  /\ UNCHANGED <<nextId, running, pending, reads, emitted, page>>

\* The promise of transporter.sendMail settles: the transport has accepted
\* the message or not.
SendMailSettled(accepted) ==
  /\ mail.awaiting # "none"
  /\ response' = [call |-> mail.awaiting,
                  result |-> WeeklyResult(mail.awaiting, AfterSendMail(accepted))]
  /\ mail' = [mail EXCEPT !.awaiting = "none"]
  /\ UNCHANGED <<applications, nextId, running, pending, reads, emitted, page>>

\* Every table of at most MaxMailRows rows.
MailTables ==
  {[i \in 1..MaxMailRows |-> RowValue(c[i], i)] :
     c \in {x \in [1..MaxMailRows -> 0..NumRowValues] :
              \A i \in 1..(MaxMailRows - 1) : x[i] <= x[i + 1]}}

Recipients == {"me@example.com"}
Entries == {"weeklySummary", "sendWeeklySummary"}

WeeklyInit ==
  /\ applications \in MailTables
  /\ nextId = MaxMailRows + 1
  /\ response = NoResponse
  /\ running = "none"
  /\ pending = <<>>
  /\ reads = <<>>
  /\ emitted = NotRecording
  /\ mail \in {[NoMail EXCEPT !.configured = c] : c \in BOOLEAN}
  /\ page = NoPage

WeeklyNext ==
  \/ \E entry \in Entries, toEmail \in Recipients, ok \in BOOLEAN, made \in BOOLEAN :
       WeeklySummary(entry, toEmail, ok, made)
  \/ \E ok \in BOOLEAN : WeeklySummaryUnaddressed(ok)
  \/ \E accepted \in BOOLEAN : SendMailSettled(accepted)

WeeklySpec == WeeklyInit /\ [][WeeklyNext]_vars

\* ------------------------------------------------ frontend page (Home)
\* The statuses the user picks in the select of a row.
PageStatuses == {"Interview", "Offer"}

\* The state setApplications is called with after a response.
WithUpdated(list, id, updatedApplication) ==
  [i \in DOMAIN list |-> IF list[i].id = id THEN updatedApplication ELSE list[i]]

\* useEffect: the list fetched from GET /api/applications is set.
FetchApplications ==
  /\ EventLoopIdle
  /\ page.applications = <<>>
  /\ page' = [page EXCEPT !.applications = [i \in Ids |-> applications[i]]]
  /\ UNCHANGED <<applications, nextId, response, running, pending, reads, emitted, mail>>

\* handleUpdateStatus(id, newStatus) up to its await fetch(...): the PATCH
\* request is on its way, and the call keeps the applications constant of
\* the render that created the function, which is the one on screen.
\* handled lists the responses handled since a call was made with no other
\* one running, and at most MaxHandled calls are made until none is running.
UpdateStatus(id, newStatus) ==
  /\ Cardinality(page.inFlight) < MaxInFlight
  /\ page.inFlight # {} => Len(page.handled) + Cardinality(page.inFlight) < MaxHandled
  /\ \E i \in DOMAIN page.applications : page.applications[i].id = id
  /\ page' = [page EXCEPT
                !.inFlight = @ \cup {[id |-> id, status |-> newStatus,
                                      applications |-> page.applications]},
                !.handled = IF page.inFlight = {} THEN <<>> ELSE @]
  /\ UNCHANGED <<applications, nextId, response, running, pending, reads, emitted, mail>>

\* The backend serves the request of call h and the call resumes with the
\* response.
StatusResponse(id, newStatus, ok) ==
  \E h \in page.inFlight :
    /\ h.id = id
    /\ h.status = newStatus
    /\ PatchStatusHandler(id, newStatus, ok)
    /\ page' = [applications |-> IF response'.status = 200
                                 THEN WithUpdated(h.applications, id, response'.body)
                                 ELSE page.applications,
                inFlight |-> page.inFlight \ {h},
                handled |-> Append(page.handled, [id |-> id, status |-> newStatus])]

\* Every application stored as POST / stores a body without properties.
PageInit ==
  /\ applications = [i \in Ids |-> createApplication([j \in Ids |-> NoRow], i, <<>>)[i]]
  /\ nextId = MaxApps + 1
  /\ response = NoResponse
  /\ running = "none"
  /\ pending = <<>>
  /\ reads = <<>>
  /\ emitted = NotRecording
  /\ mail = NoMail
  /\ page = NoPage

PageNext ==
  \/ FetchApplications
  \/ \E id \in Ids, newStatus \in PageStatuses : UpdateStatus(id, newStatus)
  \/ \E id \in Ids, newStatus \in PageStatuses, ok \in BOOLEAN : StatusResponse(id, newStatus, ok)

PageSpec == PageInit /\ [][PageNext]_vars

AnalyzerNext ==
  \/ CallRejectionRateBySource
  \/ CallBestPerformingResumeVersion
  \/ CallAverageResponseTime
  \/ CallComprehensiveInsights

AnalyzerSpec == AnalyzerInit /\ [][AnalyzerNext]_vars

\* ------------------------------------------- db.js called directly
\* Objects handed to the storage functions by a caller other than the
\* routes: every column present, source and resume_version possibly null.
StorageStatuses == {Null, "Applied", "Rejected"}

StorageData ==
  [status : StorageStatuses,
   source : SeqRange(SourceOrder) \cup {Null},
   resume_version : SeqRange(VersionOrder) \cup {Null},
   days : {DaysOrder[1]}]

StoreReturned(call, result) ==
  /\ response' = [call |-> call, result |-> result]
  /\ UNCHANGED <<running, pending, reads, emitted, mail, page>>

StoreCreate(data) ==
  /\ nextId <= MaxApps
  /\ LET db == createApplication(applications, nextId, data)
     IN /\ applications' = db
        /\ StoreReturned("createApplication", getApplicationById(db, nextId))
  /\ nextId' = nextId + 1

StoreUpdate(id, data) ==
  /\ LET db == updateApplication(applications, id, data)
     IN /\ applications' = db
        /\ StoreReturned("updateApplication", getApplicationById(db, id))
  /\ UNCHANGED nextId

StoreUpdateStatus(id, status) ==
  /\ LET db == updateApplicationStatus(applications, id, status)
     IN /\ applications' = db
        /\ StoreReturned("updateApplicationStatus", getApplicationById(db, id))
  /\ UNCHANGED nextId

StoreDelete(id) ==
  /\ applications' = deleteApplication(applications, id)
  /\ StoreReturned("deleteApplication", getApplicationById(applications, id) # NoRow)
  /\ UNCHANGED nextId

StorageNext ==
  \/ \E data \in StorageData : StoreCreate(data)
  \/ \E id \in Ids, data \in StorageData : StoreUpdate(id, data)
  \/ \E id \in Ids, status \in StorageStatuses : StoreUpdateStatus(id, status)
  \/ \E id \in Ids : StoreDelete(id)

StorageSpec == Init /\ [][StorageNext]_vars

\* ------------------------------------------------------------ properties
\* The most recent call was call and it returned a result.
Called(call) == "result" \in DOMAIN response /\ response.call = call
\* The most recent call was call and it threw.
Threw(call) == "thrown" \in DOMAIN response /\ response.call = call

HasLine(summary, kind) == \E i \in DOMAIN summary : summary[i].kind = kind
LineOf(summary, kind) == summary[CHOOSE i \in DOMAIN summary : summary[i].kind = kind]

NonEmpty == Rows(applications) # {}

\* The least index of seq whose value under rate is the greatest (sign = 1)
\* or the least (sign = -1): the first-encountered extreme.
IsFirstExtreme(seq, rate(_), sign, i) ==
  /\ \A j \in DOMAIN seq : sign * rate(seq[j]) <= sign * rate(seq[i])
  /\ \A j \in 1..(i - 1) : rate(seq[j]) # rate(seq[i])

IsExtreme(seq, rate(_), sign, i) ==
  \A j \in DOMAIN seq : sign * rate(seq[j]) <= sign * rate(seq[i])

\* C1: on a non-empty table the Key Findings name as best application source
\* a source group whose success rate is the numeric maximum over the groups.
C1_BestSourceIsMaximum ==
  (Called("getComprehensiveInsights") /\ NonEmpty) =>
    LET groups == response.result.detailedInsights.rejectionRate.insights
        text == response.result.comprehensiveSummary
        rate(g) == ParseInt(g.successRate)
    IN /\ HasLine(text, "KeyBestSource")
       /\ \E i \in DOMAIN groups :
            /\ groups[i].source = LineOf(text, "KeyBestSource").args[1]
            /\ IsExtreme(groups, rate, 1, i)

\* C2: on a non-empty table highestRejection is one of the source groups and
\* has the maximum rejectionRate; when every rate is 0 it is the first group.
C2_HighestRejectionIsGroup ==
  (Called("getRejectionRateBySource") /\ NonEmpty) =>
    LET groups == response.result.insights
        rate(g) == ParseInt(g.rejectionRate)
        line == LineOf(response.result.summary, "HighestSource")
    IN \E i \in DOMAIN groups :
         /\ groups[i].source = line.args[1]
         /\ IsExtreme(groups, rate, 1, i)
         /\ (\A j \in DOMAIN groups : rate(groups[j]) = 0) => i = 1

\* C3: on a non-empty table lowestRejection is the first-encountered source
\* group among those with the minimum rejectionRate.
C3_LowestRejectionIsFirstMinimum ==
  (Called("getRejectionRateBySource") /\ NonEmpty) =>
    LET groups == response.result.insights
        rate(g) == ParseInt(g.rejectionRate)
        line == LineOf(response.result.summary, "BestSource")
    IN \E i \in DOMAIN groups :
         /\ groups[i].source = line.args[1]
         /\ IsFirstExtreme(groups, rate, -1, i)

\* C4: on a non-empty table the best version is the first-encountered
\* version with the maximum successRate and the worst version the
\* first-encountered version with the minimum successRate.
C4_BestWorstVersionAreExtremes ==
  (Called("getBestPerformingResumeVersion") /\ NonEmpty) =>
    LET versions == response.result.versions
        rate(v) == v.successRate
        best == LineOf(response.result.summary, "BestVersion")
        worst == LineOf(response.result.summary, "LowestVersion")
    IN /\ \E i \in DOMAIN versions :
            versions[i].version = best.args[1] /\ IsFirstExtreme(versions, rate, 1, i)
       /\ \E i \in DOMAIN versions :
            versions[i].version = worst.args[1] /\ IsFirstExtreme(versions, rate, -1, i)

\* C5: when some row has status Interview, Offer or Rejected, the fastest
\* status is a present status with the minimum average and the slowest a
\* present status with the maximum average; with one status present both
\* are that status.
C5_FastestSlowestArePresent ==
  (Called("getAverageResponseTime") /\ CompletedRows(applications) # {}) =>
    LET entries == response.result.averages
        avg(e) == e.avg
        fastest == LineOf(response.result.summary, "Fastest")
        slowest == LineOf(response.result.summary, "Slowest")
    IN /\ \E i \in DOMAIN entries :
            entries[i].status = fastest.args[1] /\ IsExtreme(entries, avg, -1, i)
       /\ \E i \in DOMAIN entries :
            entries[i].status = slowest.args[1] /\ IsExtreme(entries, avg, 1, i)
       /\ Len(entries) = 1 =>
            fastest.args[1] = entries[1].status /\ slowest.args[1] = entries[1].status

InPercentRange(n) == n >= 0 /\ n <= 100

SourceRatesInRange(report) ==
  \A i \in DOMAIN report.insights :
    /\ InPercentRange(ParseInt(report.insights[i].rejectionRate))
    /\ InPercentRange(ParseInt(report.insights[i].successRate))

VersionRatesInRange(report) ==
  \A i \in DOMAIN report.versions :
    /\ InPercentRange(report.versions[i].rejectionRate)
    /\ InPercentRange(report.versions[i].successRate)
    /\ InPercentRange(report.versions[i].interviewRate)
    /\ InPercentRange(report.versions[i].offerRate)

\* C6: every rate the source and resume-version analyzers produce lies in
\* 0..100, whatever the status strings of the rows.
C6_RatesWithinPercentRange ==
  /\ Called("getRejectionRateBySource") => SourceRatesInRange(response.result)
  /\ Called("getBestPerformingResumeVersion") => VersionRatesInRange(response.result)

\* Number of rows whose column field is key and whose status is in statuses.
CountWhere(db, field, key, statuses) ==
  Cardinality({r \in Rows(db) : r[field] = key /\ r.status \in statuses})

CountAll(db, field, key) == Cardinality({r \in Rows(db) : r[field] = key})

\* C7: for every source group, total is the number of rows of the source,
\* rejectionRate is round(100 * rows with status Rejected / total), and
\* successRate is 100 - rejectionRate.
C7_SourceGroupFormulas ==
  Called("getRejectionRateBySource") =>
    \A i \in DOMAIN response.result.insights :
      LET g == response.result.insights[i]
          total == CountAll(applications, "source", g.source)
          rejected == CountWhere(applications, "source", g.source, {"Rejected"})
      IN /\ g.totalApplications = total
         /\ total > 0
         /\ ParseInt(g.rejectionRate) = RoundPercent(rejected, total)
         /\ ParseInt(g.successRate) = 100 - ParseInt(g.rejectionRate)

\* C8: for every resume-version group, successRate is
\* round(100 * (interview + offer) / total), interviewRate and offerRate are
\* round(100 * interview / total) and round(100 * offer / total), and
\* rejectionRate is round(100 * rejected / total), over the rows of the version.
C8_VersionGroupFormulas ==
  Called("getBestPerformingResumeVersion") =>
    \A i \in DOMAIN response.result.versions :
      LET v == response.result.versions[i]
          n(statuses) == CountWhere(applications, "resume_version", v.version, statuses)
          total == CountAll(applications, "resume_version", v.version)
      IN /\ total > 0
         /\ v.successRate = RoundPercent(n({"Interview", "Offer"}), total)
         /\ v.interviewRate = RoundPercent(n({"Interview"}), total)
         /\ v.offerRate = RoundPercent(n({"Offer"}), total)
         /\ v.rejectionRate = RoundPercent(n({"Rejected"}), total)

NoDataNarrative(summary) == HasLine(summary, "NoData") \/ HasLine(summary, "NoCompleted")

EmptySourceReport(report) == report.insights = <<>> /\ NoDataNarrative(report.summary)
EmptyVersionReport(report) == report.versions = <<>> /\ NoDataNarrative(report.summary)
EmptyResponseTimeReport(report) ==
  /\ "averages" \in DOMAIN report
  /\ report.averages = <<>>
  /\ NoDataNarrative(report.summary)

\* C9: on the empty table every analyzer returns a no-data narrative and an
\* empty aggregate collection that is present in the result: insights = [],
\* versions = [], averages = {}.
C9_EmptyTableReports ==
  ~NonEmpty =>
    /\ Called("getRejectionRateBySource") => EmptySourceReport(response.result)
    /\ Called("getBestPerformingResumeVersion") => EmptyVersionReport(response.result)
    /\ Called("getAverageResponseTime") => EmptyResponseTimeReport(response.result)
    /\ Called("getComprehensiveInsights") =>
         /\ EmptySourceReport(response.result.detailedInsights.rejectionRate)
         /\ EmptyVersionReport(response.result.detailedInsights.resumePerformance)
         /\ EmptyResponseTimeReport(response.result.detailedInsights.responseTime)

IsReport == "insights" \in DOMAIN response

Recognized == {"Applied", "Interview", "Offer", "Rejected", "Withdrawn"}

\* C11: whatever requests the API has served, every stored row has a status
\* that is one of Applied, Interview, Offer, Rejected, Withdrawn.
C11_StoredStatusRecognized ==
  \A r \in Rows(applications) : r.status \in Recognized

\* C12: rows whose status is not one of the five (other letter case, other
\* word, or null) never make the source or resume-version analyzer throw,
\* and take no part in the rates: every group that has a row of recognized
\* status has the rates computed over its rows of recognized status alone.
C12_UnrecognizedStatusExcluded ==
  /\ ~Threw("getRejectionRateBySource")
  /\ ~Threw("getBestPerformingResumeVersion")
  /\ Called("getRejectionRateBySource") =>
       \A i \in DOMAIN response.result.insights :
         LET g == response.result.insights[i]
             n(statuses) == CountWhere(applications, "source", g.source, statuses)
         IN n(Recognized) > 0 =>
              /\ ParseInt(g.rejectionRate) = RoundPercent(n({"Rejected"}), n(Recognized))
              /\ ParseInt(g.successRate) = 100 - RoundPercent(n({"Rejected"}), n(Recognized))
  /\ Called("getBestPerformingResumeVersion") =>
       \A i \in DOMAIN response.result.versions :
         LET v == response.result.versions[i]
             n(statuses) == CountWhere(applications, "resume_version", v.version, statuses)
         IN n(Recognized) > 0 =>
              /\ v.rejectionRate = RoundPercent(n({"Rejected"}), n(Recognized))
              /\ v.successRate = RoundPercent(n({"Interview", "Offer"}), n(Recognized))
              /\ v.interviewRate = RoundPercent(n({"Interview"}), n(Recognized))
              /\ v.offerRate = RoundPercent(n({"Offer"}), n(Recognized))

\* C13: whatever storage functions have been called, every stored row has a
\* source and a resume version that are not null.
C13_SourceAndVersionPresent ==
  \A r \in Rows(applications) : r.source # Null /\ r.resume_version # Null

\* The index of the one line of a summary that has the given kind.
IndexOf(summary, kind) == CHOOSE i \in DOMAIN summary : summary[i].kind = kind
CountKind(summary, kind) == Cardinality({i \in DOMAIN summary : summary[i].kind = kind})

\* C14: the response-time analyzer averages exactly the statuses Interview,
\* Offer and Rejected that have rows: averages has a key for a status if and
\* only if some row has that status, its value is the rounded mean over those
\* rows alone, and the count it reports is the number of rows with one of
\* the three statuses; rows of any other status contribute nothing.
C14_OnlyCompletedStatusesAveraged ==
  Called("getAverageResponseTime") =>
    LET report == response.result
        rowsOf(st) == {r \in Rows(applications) : r.status = st}
        present == {st \in {"Interview", "Offer", "Rejected"} : rowsOf(st) # {}}
        entries == IF "averages" \in DOMAIN report THEN report.averages ELSE <<>>
    IN /\ {entries[i].status : i \in DOMAIN entries} = present
       /\ Len(entries) = Cardinality(present)
       /\ \A i \in DOMAIN entries :
            entries[i].avg = RoundAvg(SumDays(rowsOf(entries[i].status)),
                                      Cardinality(rowsOf(entries[i].status)))
       /\ HasLine(report.summary, "ResponseHeader") =>
            LineOf(report.summary, "ResponseHeader").args[1]
              = Cardinality(UNION {rowsOf(st) : st \in present})

\* Averages returned for a table that also holds a row of another status
\* and lacks one of the three statuses.
C14_Witness ==
  /\ Called("getAverageResponseTime")
  /\ "averages" \in DOMAIN response.result
  /\ Len(response.result.averages) = 2
  /\ \E r \in Rows(applications) : r.status \notin {"Interview", "Offer", "Rejected"}

\* The kinds of the lines between the Recommendations heading and the
\* Detailed Analysis heading.
Bullets(text) ==
  LET from == IndexOf(text, "Recommendations")
      to == IndexOf(text, "DetailedAnalysis")
  IN [i \in 1..(to - from - 1) |-> text[from + i].kind]

\* C15: the Recommendations section holds the strategy-improvement bullet
\* iff some source group of the report has rejection rate > 50, the
\* revise-resume bullet iff some resume version of the report has success
\* rate < 30, the follow-up bullet iff the Interview average exists and is
\* > 14, each at most once, and nothing else.
C15_RecommendationBullets ==
  Called("getComprehensiveInsights") =>
    LET text == response.result.comprehensiveSummary
        detail == response.result.detailedInsights
        bullets == Bullets(text)
        has(kind) == \E i \in DOMAIN bullets : bullets[i] = kind
        once(kind) == Cardinality({i \in DOMAIN bullets : bullets[i] = kind}) <= 1
    IN /\ has("RecImproveStrategy") <=>
            \E i \in DOMAIN detail.rejectionRate.insights :
               ParseInt(detail.rejectionRate.insights[i].rejectionRate) > 50
       /\ has("RecReviseResume") <=>
            \E i \in DOMAIN detail.resumePerformance.versions :
               detail.resumePerformance.versions[i].successRate < 30
       /\ has("RecFollowUp") <=>
            /\ "averages" \in DOMAIN detail.responseTime
            /\ \E i \in DOMAIN detail.responseTime.averages :
                 /\ detail.responseTime.averages[i].status = "Interview"
                 /\ detail.responseTime.averages[i].avg > 14
       /\ \A i \in DOMAIN bullets :
            bullets[i] \in {"RecImproveStrategy", "RecReviseResume", "RecFollowUp"}
       /\ once("RecImproveStrategy") /\ once("RecReviseResume") /\ once("RecFollowUp")

\* A report with all three bullets.
C15_Witness ==
  /\ Called("getComprehensiveInsights")
  /\ Bullets(response.result.comprehensiveSummary)
       = <<"RecImproveStrategy", "RecReviseResume", "RecFollowUp">>

\* C16: the comprehensive narrative is the title banner, the Key Findings
\* section, the Recommendations section and the Detailed Analysis section in
\* that order, and the Detailed Analysis section is exactly the narratives
\* of the source, resume-version and response-time sub-reports of the same
\* result, in that order.
C16_NarrativeSections ==
  Called("getComprehensiveInsights") =>
    LET text == response.result.comprehensiveSummary
        detail == response.result.detailedInsights
        last == IndexOf(text, "DetailedAnalysis")
    IN /\ text[1].kind = "Title"
       /\ text[2].kind = "KeyFindings"
       /\ CountKind(text, "Title") = 1
       /\ CountKind(text, "KeyFindings") = 1
       /\ CountKind(text, "Recommendations") = 1
       /\ CountKind(text, "DetailedAnalysis") = 1
       /\ 2 < IndexOf(text, "Recommendations")
       /\ IndexOf(text, "Recommendations") < last
       /\ Len(text) = last + 3
       /\ text[last + 1] = Line("Detail", detail.rejectionRate.summary)
       /\ text[last + 2] = Line("Detail", detail.resumePerformance.summary)
       /\ text[last + 3] = Line("Detail", detail.responseTime.summary)

\* A report whose three sub-narratives all differ from the no-data ones.
C16_Witness ==
  /\ Called("getComprehensiveInsights")
  /\ HasLine(response.result.detailedInsights.rejectionRate.summary, "Breakdown")
  /\ HasLine(response.result.detailedInsights.resumePerformance.summary, "AllVersions")
  /\ HasLine(response.result.detailedInsights.responseTime.summary, "AverageTimes")

\* C17: no call of an analyzer or of the aggregator changes the table,
\* however many calls are made one after another.
C17_StoreUnchanged == [][applications' = applications]_vars

\* Some call has returned or thrown on a table with MaxRows rows.
C17_Witness ==
  /\ "call" \in DOMAIN response
  /\ Cardinality(Rows(applications)) = MaxRows

C19_ReportReflectsStore ==
  IsReport =>
    /\ reads = <<applications, applications, applications>>
    /\ response.insights = getComprehensiveInsights(applications)

\* A report delivered after earlier requests have stored a row of status
\* Offer.
C19_Witness ==
  /\ IsReport
  /\ \E r \in Rows(applications) : r.status = "Offer"
  /\ HasLine(response.insights.comprehensiveSummary, "KeyBestResume")

\* A statement of getComprehensiveInsights whose storage read fails.
ReadFails ==
  \/ InsightsRejection(FALSE)
  \/ InsightsResume(FALSE)
  \/ InsightsResponseTime(FALSE)

\* C20: when the storage read of an analyzer fails, the request ends at once
\* with the error response: no report, no further read, nothing kept of the
\* analyzers that had already returned.
C20_ReadFailurePropagates ==
  [][ReadFails =>
       /\ response' = InsightsFailed
       /\ running' = "none"
       /\ pending' = <<>>
       /\ Len(reads') <= Len(reads)]_vars

\* The error response after two analyzers had returned and the read of the
\* third failed.
C20_Witness ==
  /\ response = InsightsFailed
  /\ Len(reads) = 2
  /\ NonEmpty

\* ------------------------------------------------- response-time narrative
ListedStatuses == <<"Interview", "Offer", "Rejected">>

IsTimeLine(line) == line.kind = "AverageTime"
IsPresent(st) == HasAverage(response.result.averages, st)

TimeReport ==
  /\ Called("getAverageResponseTime")
  /\ "averages" \in DOMAIN response.result
  /\ Len(response.result.averages) > 0

\* C24: the response-time narrative lists the statuses present in averages,
\* each once and in the order Interview, Offer, Rejected, whatever the
\* average is (0 days included), and lists no absent status.
C24_LinePerPresentStatus ==
  TimeReport =>
    LET lines == SelectSeq(response.result.summary, IsTimeLine)
        present == SelectSeq(ListedStatuses, IsPresent)
    IN /\ Len(lines) = Len(present)
       /\ \A i \in DOMAIN lines :
            lines[i].args = <<present[i], AverageOf(response.result.averages, present[i])>>

PresentAnd(st, below) ==
  /\ HasAverage(response.result.averages, st)
  /\ AverageOf(response.result.averages, st) < below

\* C25: the narrative carries the positive commentary iff the Interview
\* average is present and below 7, the excellent commentary iff the Offer
\* average is present and below 14, the quick-rejection warning iff the
\* Rejected average is present and below 5, and the follow-up recommendation
\* iff the Interview average is present and above 21.
C25_CommentaryThresholds ==
  TimeReport =>
    LET has(kind) == HasLine(response.result.summary, kind)
    IN /\ has("PositiveInsight") <=> PresentAnd("Interview", 7)
       /\ has("ExcellentPerformance") <=> PresentAnd("Offer", 14)
       /\ has("QuickRejections") <=> PresentAnd("Rejected", 5)
       /\ has("FollowUp") <=>
            /\ HasAverage(response.result.averages, "Interview")
            /\ AverageOf(response.result.averages, "Interview") > 21

\* ------------------------------------------------------ events of the routes
Events == emitted.events
EventsAfter == emitted'.events

Stored(id) == getApplicationById(applications, id) # NoRow

StatusChanged(id) ==
  /\ Stored(id)
  /\ applications'[id] # NoRow
  /\ applications'[id].status # applications[id].status

Announced(id) ==
  \E i \in DOMAIN EventsAfter :
    /\ EventsAfter[i].name = "statusUpdated"
    /\ EventsAfter[i].payload.applicationId = id
    /\ EventsAfter[i].payload.newStatus = applications'[id].status

C22_CreatedEventAfterPersist ==
  [][IF nextId' # nextId
     THEN /\ response'.status = 201
          /\ Len(EventsAfter) = 1
          /\ EventsAfter[1].name = "applicationCreated"
          /\ EventsAfter[1].payload = applications'[nextId]
          /\ "id" \in DOMAIN EventsAfter[1].payload
          /\ EventsAfter[1].payload.id = nextId
          /\ EventsAfter[1].result =
               [workflow |-> "applicationCreated", applicationId |-> nextId, success |-> TRUE]
          /\ response'.body = applications'[nextId]
     ELSE \A i \in DOMAIN EventsAfter : EventsAfter[i].name # "applicationCreated"]_vars

\* The 201 response to a POST that gave a source and no status.
C22_Witness ==
  /\ response.status = 201
  /\ response.body.id = 2
  /\ response.body.source = "LinkedIn"
  /\ Len(Events) = 1
  /\ Events[1].payload = applications[2]

NoSuchWorkflow == [success |-> FALSE, error |-> "No workflow for event"]

\* The request that emitted the event was answered 200 or 201 and the row it
\* wrote is in the table as written.
WriteStands(e) ==
  /\ response.status \in {200, 201}
  /\ e.name = "statusUpdated" =>
       /\ response.status = 200
       /\ Stored(e.payload.applicationId)
       /\ applications[e.payload.applicationId].status = e.payload.newStatus
       /\ response.body = applications[e.payload.applicationId]
  /\ e.name = "applicationCreated" =>
       /\ response.status = 201
       /\ response.body = applications[e.payload.id]

\* C27: emitEvent always returns an object, never throws: for a name without
\* workflow the no-workflow failure, whatever the workflow of another name
\* would have done, and for a workflow that threw a failure carrying the
\* error; a request whose event failed is still answered 200 or 201 and its
\* write stays in the table.
C27_EmitEventNeverThrows ==
  \A i \in DOMAIN Events :
    LET e == Events[i]
    IN /\ ~IsThrown(e.result)
       /\ e.result.success \in BOOLEAN
       /\ e.name \notin Workflows => e.result = NoSuchWorkflow
       /\ (e.name \in Workflows /\ ~e.result.success) =>
            /\ DOMAIN e.result = {"success", "error"}
            /\ e.result.error \in {"Error", "SqliteError"}
       /\ response # NoResponse => WriteStands(e)

\* A PATCH answered 200 with the new status stored although the workflow
\* of its event failed.
C27_Witness ==
  /\ Len(Events) = 1
  /\ Events[1].name = "statusUpdated"
  /\ ~Events[1].result.success
  /\ response.status = 200
  /\ Events[1].payload.oldStatus = "Applied"
  /\ applications[Events[1].payload.applicationId].status = "Offer"

\* A request to change or delete application id.
AddressedTo(id) ==
  \/ \E status \in SeqRange(StatusOrder), ok \in BOOLEAN : PatchStatus(id, status, ok)
  \/ \E body \in RouteBodies : PutApplication(id, body)
  \/ DeleteApplication(id)

\* C28: a status update, full update or delete of an id that has no row is
\* answered 404, changes no row and emits no event.
C28_AbsentIdNotFound ==
  [][\A id \in Ids :
       (~Stored(id) /\ AddressedTo(id)) =>
         /\ response' = [status |-> 404]
         /\ applications' = applications
         /\ EventsAfter = <<>>]_vars

\* A 404 answer while one application is stored and the other id is free.
C28_Witness ==
  /\ response = [status |-> 404]
  /\ Stored(1)
  /\ ~Stored(2)
  /\ Events = <<>>

\* A PATCH /:id/status request.
Patched == \E id \in Ids, status \in SeqRange(StatusOrder), ok \in BOOLEAN : PatchStatus(id, status, ok)

\* The event of the request served last is that of a PATCH of application id.
LastPatched(id) ==
  /\ response.status = 200
  /\ Len(Events) = 1
  /\ Events[1].name = "statusUpdated"
  /\ Events[1].payload.applicationId = id

\* C29: the statusUpdated event of a PATCH request carries as oldStatus the
\* status stored before the request's write and as newStatus the status
\* stored after it, in whatever order PATCH requests on one row are served;
\* so the oldStatus of the event of a PATCH is the newStatus of the event of
\* the PATCH of the same row served just before it.
C29_EventMatchesWrite ==
  [][Patched =>
       \A i \in DOMAIN EventsAfter :
         LET e == EventsAfter[i]
         IN /\ e.name = "statusUpdated"
            /\ e.payload.oldStatus = applications[e.payload.applicationId].status
            /\ e.payload.newStatus = applications'[e.payload.applicationId].status
            /\ LastPatched(e.payload.applicationId) =>
                 e.payload.oldStatus = Events[1].payload.newStatus]_vars

\* The event of a second PATCH of one row: from Interview to Rejected.
C29_Witness ==
  /\ Len(Events) = 1
  /\ Events[1].name = "statusUpdated"
  /\ Events[1].payload = [applicationId |-> 1, oldStatus |-> "Interview", newStatus |-> "Rejected"]
  /\ response.status = 200

\* ---------------------------------------------------- the weekly summary
\* C23: a message is handed to the mail transport only once the aggregation
\* of this run has returned its report, which the message carries; when the
\* aggregation throws, nothing is handed to the transport.
C23_DispatchAfterAggregation ==
  /\ IsThrown(mail.insights) => mail.sent = <<>>
  /\ mail.sent # <<>> =>
       /\ mail.insights = getComprehensiveInsights(applications)
       /\ Len(mail.sent) = 1
       /\ mail.sent[1].text = mail.insights.comprehensiveSummary
       /\ mail.sent[1].html.times = mail.insights.detailedInsights.responseTime.averages

\* The message of the workflow is with the transport, whose answer is
\* awaited; the table has a row.
C23_Witness ==
  /\ mail.awaiting = "weeklySummary"
  /\ Len(mail.sent) = 1
  /\ NonEmpty

\* The weekly summary has returned to its caller.
WeeklyReturned == "call" \in DOMAIN response

\* The result of sendWeeklySummaryEmail within what the caller got, if the
\* weekly summary went that far.
HasEmailResult ==
  /\ WeeklyReturned
  /\ ~IsThrown(mail.insights)
  /\ response.call = "weeklySummary" => "emailResult" \in DOMAIN response.result

EmailResult ==
  IF response.call = "weeklySummary" THEN response.result.emailResult ELSE response.result

\* The transport was there and did not refuse the message.
TransportAccepts ==
  ~("error" \in DOMAIN EmailResult
    /\ EmailResult.error \in {NotAFunction.thrown, SendMailRejected.thrown})

\* C26: a weekly summary requested with a recipient, whatever the table
\* holds: with credentials and a transport that accepts, exactly one message
\* carrying the comprehensive summary is handed to the transport and the
\* result reports success (emailSent true); without credentials nothing is
\* handed to the transport, the summary is logged and the result is
\* success = false with logged = true.
C26_MailOrLog ==
  HasEmailResult =>
    /\ (mail.configured /\ TransportAccepts) =>
         /\ Len(mail.sent) = 1
         /\ mail.sent[1].text = mail.insights.comprehensiveSummary
         /\ EmailResult.success
         /\ response.call = "weeklySummary" => response.result.emailSent
    /\ ~mail.configured =>
         /\ mail.sent = <<>>
         /\ \E i \in DOMAIN mail.logged : mail.logged[i] = mail.insights.comprehensiveSummary
         /\ EmailResult = EmailNotConfigured

\* ------------------------------------------------------ the frontend page
\* The row of application id on screen.
Displayed(id) ==
  page.applications[CHOOSE i \in DOMAIN page.applications : page.applications[i].id = id]

\* Two calls of handleUpdateStatus for different applications were both
\* made before the response of either arrived, and both responses have been
\* handled.
BothHandled ==
  /\ page.inFlight = {}
  /\ Len(page.handled) = 2
  /\ page.handled[1].id # page.handled[2].id

\* C30: after two overlapping status updates of different applications the
\* list on screen shows the new status of both.
C30_BothUpdatesDisplayed ==
  BothHandled =>
    \A k \in DOMAIN page.handled :
      Displayed(page.handled[k].id).status = page.handled[k].status

====
